---- MODULE Spec2Model ----
(***************************************************************************)
(* Model of src/main.py: the customer-data CLI (load -> filter -> save).   *)
(*                                                                         *)
(* Text values are sequences of one-character strings, so that int() and   *)
(* truthiness are computed character by character as Python computes      *)
(* them.  An optional value (Python None or a value) is a sequence of      *)
(* length 0 or 1: None == <<>>, Some(x) == <<x>>.  A record (a dict) is a  *)
(* function whose domain is the set of keys the dict holds.                *)
(*                                                                         *)
(* Two specifications share the variables:                                 *)
(*   FilterSpec  filter_customers called directly, as tests/test_main.py   *)
(*               does, on arbitrary records and criteria;                  *)
(*   Spec        one invocation of main(): argument parsing, load, filter, *)
(*               status line, save, exit code.                             *)
(***************************************************************************)
EXTENDS Integers, Sequences, FiniteSets, TLC

VARIABLES pc, argv, args, inputFile, fileRows, outExists, outContent,
          customers, filtered, statusFilters, exitCode, failure,
          twice, byCountry, byAge

vars == <<pc, argv, args, inputFile, fileRows, outExists, outContent,
          customers, filtered, statusFilters, exitCode, failure,
          twice, byCountry, byAge>>

----------------------------------------------------------------------------
(* Bounds and input sets *)

MaxRecords == 2

None == <<>>

Some(x) == <<x>>

USA == <<"U", "S", "A">>

usa == <<"u", "s", "a">>

EmptyText == <<>>

T0 == <<"0">>

T21 == <<"2", "1">>

T25 == <<"2", "5">>

TPad25 == <<" ", "2", "5">>

T30Pad == <<"3", "0", " ">>

TNeg5 == <<"-", "5">>

TThirty == <<"t", "h", "i", "r", "t", "y">>

CountryFields == {None, Some(EmptyText), Some(USA), Some(usa)}

AgeFields == {None, Some(EmptyText), Some(T0), Some(T25), Some(TPad25),
              Some(T30Pad), Some(TNeg5), Some(TThirty)}

(* A dict holding the key "country" iff c is Some, "age" iff a is Some. *)
Rec(c, a) ==
    [k \in ((IF c = None THEN {} ELSE {"country"}) \cup
            (IF a = None THEN {} ELSE {"age"}))
        |-> IF k = "country" THEN c[1] ELSE a[1]]

RecordSet == {Rec(c, a) : c \in CountryFields, a \in AgeFields}

SeqsUpTo(S, n) == UNION {[1..k -> S] : k \in 0..n}

CountryArgs == {None, Some(EmptyText), Some(USA)}

MinAgeArgs == {None, Some(0), Some(21)}

----------------------------------------------------------------------------
(* Python primitives used by main.py *)

Whitespace == {" ", "\t", "\n", "\r"}

Digits == {"0", "1", "2", "3", "4", "5", "6", "7", "8", "9"}

DigitVal(ch) ==
    CASE ch = "0" -> 0 [] ch = "1" -> 1 [] ch = "2" -> 2 [] ch = "3" -> 3
      [] ch = "4" -> 4 [] ch = "5" -> 5 [] ch = "6" -> 6 [] ch = "7" -> 7
      [] ch = "8" -> 8 [] ch = "9" -> 9

RECURSIVE LStrip(_)
LStrip(s) ==
    IF s # <<>> /\ Head(s) \in Whitespace THEN LStrip(Tail(s)) ELSE s

RECURSIVE RStrip(_)
RStrip(s) ==
    IF s # <<>> /\ s[Len(s)] \in Whitespace
    THEN RStrip(SubSeq(s, 1, Len(s) - 1))
    ELSE s

(* int() ignores whitespace on both sides of the literal. *)
StripNone(s) == s

Strip(s) == RStrip(LStrip(s))

RECURSIVE DecimalValue(_)
DecimalValue(ds) ==
    IF ds = <<>> THEN 0
    ELSE DecimalValue(SubSeq(ds, 1, Len(ds) - 1)) * 10 + DigitVal(ds[Len(ds)])

(* The digit part of a base-10 literal: digits, single underscores only   *)
(* between digits.                                                        *)
DigitsOK(body) ==
    /\ body # <<>>
    /\ \A i \in 1..Len(body) : body[i] \in Digits \cup {"_"}
    /\ body[1] # "_"
    /\ body[Len(body)] # "_"
    /\ \A i \in 1..(Len(body) - 1) : ~(body[i] = "_" /\ body[i + 1] = "_")

(* int(text): None stands for ValueError, Some(n) for the value n. *)
ParseInt(s) ==
    LET t == Strip(s)
        signed == t # <<>> /\ t[1] \in {"+", "-"}
        body == IF signed THEN Tail(t) ELSE t
        magnitude == DecimalValue(SelectSeq(body, LAMBDA ch : ch \in Digits))
    IN IF DigitsOK(body)
       THEN Some(IF signed /\ t[1] = "-" THEN 0 - magnitude ELSE magnitude)
       ELSE None

(* dict.get(key): None when the key is missing. *)
Get(c, k) == IF k \in DOMAIN c THEN Some(c[k]) ELSE None

(* Truth value of an optional text: None and "" are falsy. *)
Truthy(opt) == opt # None /\ opt[1] # EmptyText

----------------------------------------------------------------------------
(* filter_customers *)

(* `if country:` *)
CountryActive(country) == Truthy(country)

(* `c.get('country') == country` *)
CountryMatches(c, country) == Get(c, "country") = country

(* `if min_age is not None:` *)
MinAgeActiveTruthy(min_age) == min_age # None /\ min_age[1] # 0

MinAgeActive(min_age) == min_age # None

(* `c.get('age') and int(c.get('age')) >= min_age` for one record:        *)
(* "fail" and "pass" are the condition's truth value, "raise" is the      *)
(* ValueError of int().                                                    *)
AgeCheck(c, m) ==
    LET age == Get(c, "age")
    IN IF ~Truthy(age) THEN "fail"
       ELSE IF ParseInt(age[1]) = None THEN "raise"
       ELSE IF ParseInt(age[1])[1] >= m THEN "pass" ELSE "fail"

Returned(seq) == [raised |-> FALSE, value |-> seq]

Raised == [raised |-> TRUE, value |-> <<>>]

NotRun == [raised |-> FALSE, value |-> <<>>]

filter_customers_skipfirst(cs, country, min_age) ==
    LET byC == IF CountryActive(country)
               THEN SelectSeq(cs, LAMBDA c : CountryMatches(c, country))
               ELSE cs
    IN IF ~MinAgeActive(min_age) THEN Returned(byC)
       ELSE IF \E i \in 1..Len(byC) : AgeCheck(byC[i], min_age[1]) = "raise"
            THEN Raised
            ELSE LET kept == SelectSeq(byC, LAMBDA c : AgeCheck(c, min_age[1]) = "pass")
                 IN Returned(IF kept = <<>> THEN kept ELSE Tail(kept))

filter_customers_extend(cs, country, min_age) ==
    LET byC == IF CountryActive(country)
               THEN SelectSeq(cs, LAMBDA c : CountryMatches(c, country))
               ELSE cs
    IN IF ~MinAgeActive(min_age) THEN Returned(byC)
       ELSE IF \E i \in 1..Len(byC) : AgeCheck(byC[i], min_age[1]) = "raise"
            THEN Raised
            ELSE Returned(byC \o SelectSeq(byC, LAMBDA c : AgeCheck(c, min_age[1]) = "pass"))

(* The country comprehension runs first; the age comprehension then runs  *)
(* over its result only, and the first int() that raises ends the call.   *)
filter_customers(cs, country, min_age) ==
    LET byC == IF CountryActive(country)
               THEN SelectSeq(cs, LAMBDA c : CountryMatches(c, country))
               ELSE cs
    IN IF ~MinAgeActive(min_age) THEN Returned(byC)
       ELSE IF \E i \in 1..Len(byC) : AgeCheck(byC[i], min_age[1]) = "raise"
            THEN Raised
            ELSE Returned(SelectSeq(byC, LAMBDA c : AgeCheck(c, min_age[1]) = "pass"))

----------------------------------------------------------------------------
(* Direct calls of filter_customers (tests/test_main.py) *)

NoArgv == [cmd |-> "direct", input |-> FALSE, output |-> FALSE,
           country |-> None, minAge |-> None]

Namespace(command, country, min_age) ==
    [command |-> command, country |-> country, min_age |-> min_age]

FilterInit ==
    /\ pc = "call"
    /\ customers \in SeqsUpTo(RecordSet, MaxRecords)
    /\ \E country \in CountryArgs, min_age \in MinAgeArgs :
          args = Namespace("direct", country, min_age)
    /\ argv = NoArgv
    /\ inputFile = "none"
    /\ fileRows = <<>>
    /\ outExists = FALSE
    /\ outContent = <<>>
    /\ filtered = NotRun
    /\ twice = NotRun
    /\ byCountry = NotRun
    /\ byAge = NotRun
    /\ statusFilters = <<>>
    /\ exitCode = -1
    /\ failure = "none"

(* filter_customers(customers, country=X, min_age=Y) *)
CallBoth ==
    /\ pc = "call"
    /\ filtered' = filter_customers(customers, args.country, args.min_age)
    /\ pc' = "called"
    /\ UNCHANGED <<argv, args, inputFile, fileRows, outExists, outContent,
                   customers, statusFilters, exitCode, failure,
                   twice, byCountry, byAge>>

(* filter_customers applied to its own result, when the first call returned *)
CallAgain ==
    /\ pc = "called"
    /\ ~filtered.raised
    /\ twice' = filter_customers(filtered.value, args.country, args.min_age)
    /\ pc' = "again"
    /\ UNCHANGED <<argv, args, inputFile, fileRows, outExists, outContent,
                   customers, filtered, statusFilters, exitCode, failure,
                   byCountry, byAge>>

(* filter_customers(customers, country=X) *)
CallCountryOnly ==
    /\ \/ pc = "again"
       \/ pc = "called" /\ filtered.raised
    /\ byCountry' = filter_customers(customers, args.country, None)
    /\ pc' = "country"
    /\ UNCHANGED <<argv, args, inputFile, fileRows, outExists, outContent,
                   customers, filtered, statusFilters, exitCode, failure,
                   twice, byAge>>

(* filter_customers(customers, min_age=Y) *)
CallAgeOnly ==
    /\ pc = "country"
    /\ byAge' = filter_customers(customers, None, args.min_age)
    /\ pc' = "compared"
    /\ UNCHANGED <<argv, args, inputFile, fileRows, outExists, outContent,
                   customers, filtered, statusFilters, exitCode, failure,
                   twice, byCountry>>

FilterNext == CallBoth \/ CallAgain \/ CallCountryOnly \/ CallAgeOnly

FilterSpec == FilterInit /\ [][FilterNext]_vars

----------------------------------------------------------------------------
(* One invocation of main() *)

(* Rows of the input CSV: the header names both fields, so every row has  *)
(* both keys.                                                             *)
FileRowSet == {Rec(Some(c), Some(a)) : c \in {USA, usa},
                                       a \in {EmptyText, T25, TThirty}}

MinAgeTexts == {None, Some(T0), Some(T21), Some(TThirty)}

OldToken == [tok |-> "old"]

(* json.dump(data, f, indent=2) writes the array chunk by chunk. *)
Serialize(data) ==
    <<[tok |-> "["]>>
    \o [i \in 1..Len(data) |-> [tok |-> "item", rec |-> data[i]]]
    \o <<[tok |-> "]"]>>

Init ==
    /\ pc = "parse"
    /\ \E cmd \in {"none", "bogus", "process"}, input \in BOOLEAN,
          output \in BOOLEAN, country \in CountryArgs, minAge \in MinAgeTexts :
          /\ cmd # "process" =>
                ~input /\ ~output /\ country = None /\ minAge = None
          /\ argv = [cmd |-> cmd, input |-> input, output |-> output,
                     country |-> country, minAge |-> minAge]
    /\ inputFile \in {"missing", "unreadable", "ok"}
    /\ fileRows \in SeqsUpTo(FileRowSet, MaxRecords)
    /\ inputFile # "ok" => fileRows = <<>>
    /\ outExists \in BOOLEAN
    /\ outContent = IF outExists THEN <<OldToken>> ELSE <<>>
    /\ args = Namespace("unparsed", None, None)
    /\ customers = <<>>
    /\ filtered = NotRun
    /\ twice = NotRun
    /\ byCountry = NotRun
    /\ byAge = NotRun
    /\ statusFilters = <<>>
    /\ exitCode = -1
    /\ failure = "none"

(* argparse's parser.error() ends the process with status 2. *)
UsageExit == 2

Exit(code, why) ==
    /\ pc' = "exit"
    /\ exitCode' = code
    /\ failure' = why

(* parser.parse_args(): an unknown command, a missing required flag or a  *)
(* --min-age that int() rejects is a usage error.                         *)
ParseArgs ==
    /\ pc = "parse"
    /\ IF argv.cmd = "bogus"
       THEN Exit(UsageExit, "usage") /\ UNCHANGED args
       ELSE IF argv.cmd = "none"
       THEN /\ args' = Namespace("none", None, None)
            /\ pc' = "dispatch"
            /\ UNCHANGED <<exitCode, failure>>
       ELSE IF ~argv.input \/ ~argv.output
       THEN Exit(UsageExit, "usage") /\ UNCHANGED args
       ELSE IF argv.minAge # None /\ ParseInt(argv.minAge[1]) = None
       THEN Exit(UsageExit, "usage") /\ UNCHANGED args
       ELSE /\ args' = Namespace("process", argv.country,
                                 IF argv.minAge = None THEN None
                                 ELSE ParseInt(argv.minAge[1]))
            /\ pc' = "dispatch"
            /\ UNCHANGED <<exitCode, failure>>
    /\ UNCHANGED <<argv, inputFile, fileRows, outExists, outContent,
                   customers, filtered, statusFilters, twice, byCountry, byAge>>

NoCommandExit == 1

(* `if args.command == 'process': ... else: print_help(); sys.exit(1)` *)
Dispatch ==
    /\ pc = "dispatch"
    /\ IF args.command = "process"
       THEN pc' = "load" /\ UNCHANGED <<exitCode, failure>>
       ELSE Exit(NoCommandExit, "no_command")
    /\ UNCHANGED <<argv, args, inputFile, fileRows, outExists, outContent,
                   customers, filtered, statusFilters, twice, byCountry, byAge>>

LoadFailExitZero(kind) == 0

LoadFailExit(kind) == 1

(* load_customers: FileNotFoundError and any other exception exit 1. *)
LoadCustomers ==
    /\ pc = "load"
    /\ IF inputFile = "missing"
       THEN Exit(LoadFailExit("not_found"), "not_found") /\ UNCHANGED customers
       ELSE IF inputFile = "unreadable"
       THEN Exit(LoadFailExit("read"), "read") /\ UNCHANGED customers
       ELSE /\ customers' = fileRows
            /\ pc' = "filter"
            /\ UNCHANGED <<exitCode, failure>>
    /\ UNCHANGED <<argv, args, inputFile, fileRows, outExists, outContent,
                   filtered, statusFilters, twice, byCountry, byAge>>

(* process_command line 62; a ValueError from int() is caught nowhere and *)
(* the interpreter ends with status 1.                                    *)
Filter ==
    /\ pc = "filter"
    /\ filtered' = filter_customers(customers, args.country, args.min_age)
    /\ IF filtered'.raised
       THEN Exit(1, "uncaught")
       ELSE pc' = "report" /\ UNCHANGED <<exitCode, failure>>
    /\ UNCHANGED <<argv, args, inputFile, fileRows, outExists, outContent,
                   customers, statusFilters, twice, byCountry, byAge>>

(* `if args.country:` / `if args.min_age:` of the status line *)
DescribesCountry(country) == Truthy(country)

DescribesMinAge(min_age) == min_age # None /\ min_age[1] # 0

StatusFilters(country, min_age) ==
    (IF DescribesCountry(country)
     THEN <<[key |-> "country", text |-> country[1]]>> ELSE <<>>)
    \o (IF DescribesMinAge(min_age)
        THEN <<[key |-> "min_age", number |-> min_age[1]]>> ELSE <<>>)

Report ==
    /\ pc = "report"
    /\ statusFilters' = StatusFilters(args.country, args.min_age)
    /\ pc' = "open"
    /\ UNCHANGED <<argv, args, inputFile, fileRows, outExists, outContent,
                   customers, filtered, exitCode, failure,
                   twice, byCountry, byAge>>

(* open(output_path, 'w'): fails leaving the path alone, or truncates. *)
SaveOpen ==
    /\ pc = "open"
    /\ \/ /\ Exit(1, "write")
          /\ UNCHANGED <<outExists, outContent>>
       \/ /\ outExists' = TRUE
          /\ outContent' = <<>>
          /\ pc' = "write"
          /\ UNCHANGED <<exitCode, failure>>
    /\ UNCHANGED <<argv, args, inputFile, fileRows, customers, filtered,
                   statusFilters, twice, byCountry, byAge>>

(* One chunk of json.dump reaches the file, or the write fails. *)
SaveWrite ==
    /\ pc = "write"
    /\ Len(outContent) < Len(Serialize(filtered.value))
    /\ \/ /\ outContent' =
                Append(outContent, Serialize(filtered.value)[Len(outContent) + 1])
          /\ UNCHANGED <<pc, exitCode, failure>>
       \/ /\ Exit(1, "write")
          /\ UNCHANGED outContent
    /\ UNCHANGED <<argv, args, inputFile, fileRows, outExists, customers,
                   filtered, statusFilters, twice, byCountry, byAge>>

(* The with block closes the file; process_command and main return. *)
SaveClose ==
    /\ pc = "write"
    /\ outContent = Serialize(filtered.value)
    /\ Exit(0, "none")
    /\ UNCHANGED <<argv, args, inputFile, fileRows, outExists, outContent,
                   customers, filtered, statusFilters, twice, byCountry, byAge>>

Next ==
    \/ ParseArgs
    \/ Dispatch
    \/ LoadCustomers
    \/ Filter
    \/ Report
    \/ SaveOpen
    \/ SaveWrite
    \/ SaveClose

Spec == Init /\ [][Next]_vars

----------------------------------------------------------------------------
(* Properties of filter_customers, checked under FilterSpec *)

Called == pc \in {"called", "again", "country", "compared"}

HasAge(c) == "age" \in DOMAIN c

HasCountry(c) == "country" \in DOMAIN c

(* The age text is missing, empty or not an integer literal. *)
BadAge(c) == ~HasAge(c) \/ c["age"] = EmptyText \/ ParseInt(c["age"]) = None

RECURSIVE IsSubsequence(_, _)
IsSubsequence(s, r) ==
    IF s = <<>> THEN TRUE
    ELSE IF r = <<>> THEN FALSE
    ELSE IF Head(s) = Head(r) THEN IsSubsequence(Tail(s), Tail(r))
    ELSE IsSubsequence(s, Tail(r))

Range(s) == {s[i] : i \in 1..Len(s)}

(* C1: with min_age active the call never raises, and a record whose age  *)
(* is missing, empty or not an integer is left out of the result.         *)
C1_NeverRaises ==
    (Called /\ args.min_age # None) =>
        /\ ~filtered.raised
        /\ \A i \in 1..Len(filtered.value) : ~BadAge(filtered.value[i])

(* C2: whenever the call returns, its result is an order-preserving       *)
(* subsequence of the input: nothing added, duplicated, reordered or      *)
(* modified.                                                              *)
C2_ResultIsSubsequence ==
    (Called /\ ~filtered.raised) =>
        /\ IsSubsequence(filtered.value, customers)
        /\ Len(filtered.value) <= Len(customers)

C2_Witness ==
    /\ pc = "called"
    /\ ~filtered.raised
    /\ args.country # None
    /\ args.min_age # None
    /\ Len(customers) = 2
    /\ Len(filtered.value) = 1
    /\ filtered.value[1] = customers[2]
    /\ customers[1] # customers[2]

(* C3: whenever country is given as any text, the empty text included,    *)
(* the result is exactly the records whose country field equals it.       *)
C3_CountryExactMatch ==
    (Called /\ args.country # None /\ args.min_age = None) =>
        /\ ~filtered.raised
        /\ filtered.value =
              SelectSeq(customers,
                        LAMBDA c : HasCountry(c) /\ c["country"] = args.country[1])

(* Digits with whitespace before or after them, and nothing else. *)
PaddedDigits(t) ==
    /\ t # <<>>
    /\ t[1] \in Whitespace \/ t[Len(t)] \in Whitespace
    /\ \E i \in 1..Len(t) : t[i] \in Digits
    /\ \A i \in 1..Len(t) : t[i] \in Digits \cup Whitespace
    /\ \A i, j, k \in 1..Len(t) :
          (i < j /\ j < k /\ t[i] \in Digits /\ t[k] \in Digits) => t[j] \in Digits

(* The integer the digits of a padded text denote. *)
PaddedValue(t) == DecimalValue(SelectSeq(t, LAMBDA ch : ch \in Digits))

(* C4 as stated: with min_age active, a record whose age has whitespace   *)
(* around its digits is never in the result.                              *)
C4_PaddedAgeExcluded ==
    (Called /\ args.min_age # None /\ ~filtered.raised) =>
        \A i \in 1..Len(filtered.value) :
            ~(HasAge(filtered.value[i]) /\ PaddedDigits(filtered.value[i]["age"]))

(* C4 amended: with min_age active, the age check of a record whose age   *)
(* has whitespace around its digits does not raise and passes exactly     *)
(* when the integer the digits denote is >= min_age; in every result the  *)
(* call returns, such a record is retained exactly when it also passes    *)
(* the country check.                                                     *)
C4_PaddedAgeParsed ==
    (Called /\ args.min_age # None) =>
        \A i \in 1..Len(customers) :
            LET c == customers[i]
            IN (HasAge(c) /\ PaddedDigits(c["age"])) =>
                  /\ AgeCheck(c, args.min_age[1]) =
                        (IF PaddedValue(c["age"]) >= args.min_age[1]
                         THEN "pass" ELSE "fail")
                  /\ ~filtered.raised =>
                        (c \in Range(filtered.value) <=>
                            /\ PaddedValue(c["age"]) >= args.min_age[1]
                            /\ (Truthy(args.country) =>
                                   HasCountry(c) /\ c["country"] = args.country[1]))

C4_Witness ==
    /\ pc = "called"
    /\ args.min_age = Some(21)
    /\ ~filtered.raised
    /\ Len(customers) = 2
    /\ HasAge(customers[1]) /\ customers[1]["age"] = TPad25
    /\ HasAge(customers[2]) /\ customers[2]["age"] = T30Pad
    /\ filtered.value = customers

(* Records of a that are also in b, in a's order. *)
IntersectOrder(a, b) == SelectSeq(a, LAMBDA x : x \in Range(b))

(* C5: the call with both criteria equals the order-preserving            *)
(* intersection of the call with country alone and the call with min_age  *)
(* alone.                                                                 *)
C5_Conjunctive ==
    (pc = "compared" /\ args.country # None /\ args.min_age # None
        /\ ~filtered.raised) =>
        /\ ~byCountry.raised
        /\ ~byAge.raised
        /\ filtered.value = IntersectOrder(byCountry.value, byAge.value)

(* C9: when the call returns, calling again on its result with the same   *)
(* criteria returns the same result.                                      *)
C9_Idempotent ==
    (pc \in {"again", "country", "compared"} /\ ~filtered.raised) =>
        /\ ~twice.raised
        /\ twice.value = filtered.value

C9_Witness ==
    /\ pc = "again"
    /\ args.country # None
    /\ args.min_age # None
    /\ Len(customers) = 2
    /\ Len(filtered.value) = 1
    /\ twice.value = filtered.value

(* The age text is an integer literal of value >= 0. *)
NonNegAge(c) ==
    HasAge(c) /\ ParseInt(c["age"]) # None /\ ParseInt(c["age"])[1] >= 0

(* The age text is missing, empty or an integer literal of value < 0. *)
ExcludedAtZero(c) ==
    \/ ~HasAge(c)
    \/ c["age"] = EmptyText
    \/ ParseInt(c["age"]) # None /\ ParseInt(c["age"])[1] < 0

(* C10: min_age = 0 is an active criterion: the age check passes every    *)
(* record whose age is an integer >= 0 and fails every record whose age   *)
(* is missing, empty or negative, and a returned result holds exactly the *)
(* former; only an absent min_age leaves the input unfiltered by age.     *)
C10_ZeroIsActive ==
    /\ (Called /\ args.min_age = Some(0)) =>
          /\ \A i \in 1..Len(customers) :
                /\ NonNegAge(customers[i]) => AgeCheck(customers[i], 0) = "pass"
                /\ ExcludedAtZero(customers[i]) => AgeCheck(customers[i], 0) = "fail"
          /\ (~filtered.raised /\ args.country = None) =>
                filtered.value = SelectSeq(customers, NonNegAge)
    /\ (Called /\ args.min_age = None /\ args.country = None) =>
          /\ ~filtered.raised
          /\ filtered.value = customers

C10_Witness ==
    /\ pc = "called"
    /\ args.min_age = Some(0)
    /\ args.country = None
    /\ ~filtered.raised
    /\ Len(customers) = 2
    /\ HasAge(customers[1]) /\ customers[1]["age"] = TNeg5
    /\ HasAge(customers[2]) /\ customers[2]["age"] = T0
    /\ filtered.value = <<customers[2]>>

----------------------------------------------------------------------------
(* Properties of the command line, checked under Spec *)

(* What argparse rejects: an unknown command, a missing required flag, a  *)
(* --min-age that is no integer literal.                                  *)
UsageError ==
    \/ argv.cmd = "bogus"
    \/ /\ argv.cmd = "process"
       /\ \/ ~argv.input
          \/ ~argv.output
          \/ argv.minAge # None /\ ParseInt(argv.minAge[1]) = None

NoSubcommand == argv.cmd = "none"

Failed ==
    \/ UsageError
    \/ NoSubcommand
    \/ inputFile # "ok"
    \/ failure # "none"

(* C6 as stated: every failing invocation ends with exit code 1, a        *)
(* successful one with 0.                                                 *)
C6_FailureExitsOne ==
    pc = "exit" => exitCode = (IF Failed THEN 1 ELSE 0)

(* C6 amended: a usage error found by the argument parser (unknown        *)
(* command, missing --input or --output, non-integer --min-age) ends with *)
(* exit code 2; every other failure (no subcommand, input not found, read *)
(* or write failure) ends with 1; a successful invocation ends with 0.    *)
C6_ExitCodes ==
    pc = "exit" =>
        exitCode = (IF UsageError THEN 2 ELSE IF Failed THEN 1 ELSE 0)

C6_Witness ==
    /\ pc = "exit"
    /\ argv.cmd = "process"
    /\ argv.input
    /\ ~argv.output
    /\ exitCode = 2

Reported == pc \in {"open", "write"}

Describes(key) == \E i \in 1..Len(statusFilters) : statusFilters[i].key = key

(* C7: the status line describes exactly the supplied criteria:           *)
(* country=<value> iff country is supplied, min_age=<value> iff min_age   *)
(* is supplied, 0 included.                                               *)
C7_StatusListsActive ==
    Reported =>
        /\ Describes("country") <=> args.country # None
        /\ Describes("min_age") <=> args.min_age # None
        /\ \A i \in 1..Len(statusFilters) :
              /\ statusFilters[i].key = "country" =>
                    statusFilters[i].text = args.country[1]
              /\ statusFilters[i].key = "min_age" =>
                    statusFilters[i].number = args.min_age[1]

OutputUntouched ==
    \/ ~outExists /\ outContent = <<>>
    \/ outExists /\ outContent = <<OldToken>>

(* C8: when the run has ended, the output path holds the complete         *)
(* serialization of the filtered set or nothing this run wrote.           *)
C8_AllOrNothing ==
    pc = "exit" =>
        \/ OutputUntouched
        \/ outExists /\ ~filtered.raised /\ outContent = Serialize(filtered.value)

====
